---- MODULE Spec2Model ----
(***************************************************************************)
(* Model of the signal-generation core of src/script.js (the later of the  *)
(* two variants in the file, lines 589-1175): the TTL cache, fetchWithRetry *)
(* and generateSignal with its remote call and local heuristic.            *)
(*                                                                         *)
(* JavaScript runs each task to completion, so one action is one           *)
(* continuation: the code from one await to the next.  Time is Date.now()  *)
(* in milliseconds.                                                        *)
(***************************************************************************)
EXTENDS Integers, Sequences, FiniteSets, TLC

VARIABLES now, cache, isOnline, pyodide, signals, calls, started, lastSet, evicted,
          applied, engine, app

vars == <<now, cache, isOnline, pyodide, signals, calls, started, lastSet, evicted,
          applied, engine, app>>

(***************************************************************************)
(* Bounds of the model.                                                    *)
(***************************************************************************)
MaxNow == 60000
\* Calls started in one run: of any kind, and of generateSignal.
MaxStarts == 3
MaxSignals == 2

(***************************************************************************)
(* CONFIG (script.js 592-602) and the literals of the code.                *)
(***************************************************************************)
MAX_RETRIES == 3
CACHE_TTL == 30000
MinSamples == 30
AlertThreshold == 80
BackoffUnit == 1000

\* Two call chains can be in flight at once.
Procs == {1, 2}
Coins == {"bitcoin", "ethereum"}
\* The clock advances in steps of 15000 ms: two steps put an entry at
\* exactly CACHE_TTL, three put it past it.
TickSteps == {15000}
\* The values fetchWithRetry's third argument takes: the default, and a
\* smaller explicit budget.
RetryArgs == {1, MAX_RETRIES}

(***************************************************************************)
(* JavaScript values.  A number-or-undefined is a tuple of length 0 or 1.  *)
(***************************************************************************)
UNDEF == <<>>
Num(v) == <<v>>
IsDef(x) == Len(x) = 1
Val(x) == x[1]
\* a > b, a < b in JavaScript: false when either side is undefined (NaN).
Gt(a, b) == IsDef(a) /\ IsDef(b) /\ Val(a) > Val(b)
Lt(a, b) == IsDef(a) /\ IsDef(b) /\ Val(a) < Val(b)

(***************************************************************************)
(* Payloads an endpoint can answer with (response.json()): JSON null, or a *)
(* market_chart object whose prices array has len entries.                 *)
(***************************************************************************)
HistLens == {29, 30}
NULL == [t |-> "null", len |-> 0]
Chart(n) == [t |-> "chart", len |-> n]
Payloads == {NULL} \cup {Chart(n) : n \in HistLens}
\* JavaScript truthiness: null is falsy, every object is truthy.
Truthy(v) == v.t = "chart"

NoEntry == [data |-> NULL, timestamp |-> -1]

(***************************************************************************)
(* Cache layer.                                                            *)
(***************************************************************************)
\* getCache with the expiry test written >= instead of >.
getCache_ExpiresAtTTL(c, key, t) ==
    IF key \notin DOMAIN c THEN NULL
    ELSE IF t - c[key].timestamp >= CACHE_TTL THEN NULL
    ELSE c[key].data

\* Value returned by getCache(key) at time t.
getCache(c, key, t) ==
    IF key \notin DOMAIN c THEN NULL
    ELSE IF t - c[key].timestamp > CACHE_TTL THEN NULL
    ELSE c[key].data

\* STATE.cache after getCache(key) at time t: an expired entry is deleted.
getCacheEvict(c, key, t) ==
    IF key \in DOMAIN c /\ t - c[key].timestamp > CACHE_TTL
    THEN [k \in DOMAIN c \ {key} |-> c[k]]
    ELSE c

\* setCache that keeps the timestamp of an entry it overwrites.
setCache_KeepsTimestamp(c, key, data, t) ==
    [k \in DOMAIN c \cup {key} |->
        IF k = key
        THEN [data |-> data,
              timestamp |-> IF key \in DOMAIN c THEN c[key].timestamp ELSE t]
        ELSE c[k]]

\* STATE.cache after setCache(key, data) at time t.
setCache(c, key, data, t) ==
    [k \in DOMAIN c \cup {key} |->
        IF k = key THEN [data |-> data, timestamp |-> t] ELSE c[k]]

(***************************************************************************)
(* Coin snapshots, indicators and signals.                                 *)
(***************************************************************************)
\* A card click or a refresh passes a full markets row; a search-result
\* click passes only {id, name, symbol}, so every number is undefined.
FullSnapshot(c) ==
    [id |-> c, current_price |-> Num(100), price_change_1h |-> Num(100),
     total_volume |-> Num(10), market_cap |-> Num(100)]
SearchSnapshot(c) ==
    [id |-> c, current_price |-> UNDEF, price_change_1h |-> UNDEF,
     total_volume |-> UNDEF, market_cap |-> UNDEF]
\* The calls made: a card click on bitcoin, a search-result click on ethereum.
CoinSnapshots == {FullSnapshot("bitcoin"), SearchSnapshot("ethereum")}
\* A markets row priced under the lower band (1h change +1%, volume 10% of
\* the market cap).
LowSnapshot == [FullSnapshot("bitcoin") EXCEPT !.current_price = Num(90)]
AllCoinSnapshots == CoinSnapshots \cup {LowSnapshot}

\* Results of analyze_all: rsi, MACD histogram (x100) and the two bands.
NoIndicators == [rsi |-> 50, histogram |-> 0, lower |-> 95, upper |-> 105]
IndicatorSet ==
    { [rsi |-> 25, histogram |-> 150, lower |-> 95, upper |-> 105],
      NoIndicators }
AllIndicatorSet ==
    [rsi : {20, 25, 50, 75}, histogram : {-50, 0, 150}, lower : {95}, upper : {105}]

\* The object handed to the heuristic: {...coinData, indicators}.  A markets
\* row has current_price, price_change_percentage_1h_in_currency and
\* total_volume, so the keys price, change_1h and volume are not there.
HeuristicInput(coinData, indicators) ==
    [price |-> UNDEF, change_1h |-> UNDEF, volume |-> UNDEF,
     market_cap |-> coinData.market_cap, indicators |-> indicators]

\* The two scores of AIFallbackEngine.generateSignal, <<buyScore, sellScore>>.
HeuristicScores(data) ==
    LET ind == data.indicators
        rsiB == IF ind.rsi < 30 THEN 3 ELSE 0
        rsiS == IF ind.rsi >= 30 /\ ind.rsi > 70 THEN 3 ELSE 0
        macdB == IF ind.histogram > 0 THEN 2 ELSE 0
        macdS == IF ind.histogram > 0 THEN 0 ELSE 2
        bbB == IF Lt(data.price, Num(ind.lower)) THEN 2 ELSE 0
        bbS == IF ~Lt(data.price, Num(ind.lower)) /\ Gt(data.price, Num(ind.upper))
               THEN 2 ELSE 0
        \* change_1h is in hundredths of a percent: 0.5 is 50.
        momB == IF Gt(data.change_1h, Num(50)) THEN 1 ELSE 0
        momS == IF ~Gt(data.change_1h, Num(50)) /\ Lt(data.change_1h, Num(-50))
                THEN 1 ELSE 0
        \* volume > market_cap * 0.05, in integers.
        vol == IF IsDef(data.volume) /\ IsDef(data.market_cap)
                  /\ 20 * Val(data.volume) > Val(data.market_cap) THEN 1 ELSE 0
    IN <<rsiB + macdB + bbB + momB + vol, rsiS + macdS + bbS + momS + vol>>

Min(a, b) == IF a < b THEN a ELSE b

\* Probabilities are in units of 1/10000.  Math.random() * 0.3 + 0.6 lies
\* in [0.6, 0.9): the values it takes in one call chain, and in general.
ProbUnit == 10000
Strengths == {6000}
AllStrengths == {6000, 8990}

\* A confidence with no cap at 90.
HeuristicConfidence_NoCap(score) == 50 + score * 8

\* Math.min(90, 50 + (score * 8)) of lines 672 and 675.
HeuristicConfidence(score) == Min(90, 50 + score * 8)

\* A decision that only looks at the threshold, not at the other score.
HeuristicDecision_ThresholdOnly(buyScore, sellScore) ==
    IF buyScore >= 5
    THEN [decision |-> "Buy", confidence |-> HeuristicConfidence(buyScore)]
    ELSE IF sellScore >= 5
    THEN [decision |-> "Sell", confidence |-> HeuristicConfidence(sellScore)]
    ELSE [decision |-> "Hold", confidence |-> 50]

\* A decision whose threshold is a score of 4.
HeuristicDecision_FromFour(buyScore, sellScore) ==
    IF buyScore >= 4 /\ buyScore > sellScore
    THEN [decision |-> "Buy", confidence |-> HeuristicConfidence(buyScore)]
    ELSE IF sellScore >= 4 /\ sellScore > buyScore
    THEN [decision |-> "Sell", confidence |-> HeuristicConfidence(sellScore)]
    ELSE [decision |-> "Hold", confidence |-> 50]

\* The decision and the confidence of lines 666-676 for the two scores.
HeuristicDecision(buyScore, sellScore) ==
    IF buyScore >= 5 /\ buyScore > sellScore
    THEN [decision |-> "Buy", confidence |-> HeuristicConfidence(buyScore)]
    ELSE IF sellScore >= 5 /\ sellScore > buyScore
    THEN [decision |-> "Sell", confidence |-> HeuristicConfidence(sellScore)]
    ELSE [decision |-> "Hold", confidence |-> 50]

\* undefined * 0.99 is NaN: not undefined, and like it in no comparison.
NaN == <<0, 0>>

\* price * (pct / 100), kept exact as a number of hundredths of the price
\* unit: stoploss and take_profit are in hundredths, entry_price in units.
Percent(price, pct) == IF IsDef(price) THEN Num(Val(price) * pct) ELSE NaN

\* A stoploss that is below the price whatever the decision.
StopLoss_AlwaysBelow(decision, price) == Percent(price, 99)

\* stoploss: decision === 'Buy' ? price * 0.99 : price * 1.01 and
\* take_profit: decision === 'Buy' ? price * 1.03 : price * 0.97.
StopLoss(decision, price) == Percent(price, IF decision = "Buy" THEN 99 ELSE 101)
TakeProfit(decision, price) == Percent(price, IF decision = "Buy" THEN 103 ELSE 97)

\* The Signal AIFallbackEngine.generateSignal returns for data when
\* Math.random() makes strength.  The explanation is the text
\* `Local AI: RSI=.., MACD=.., Score=buyScore:sellScore`, kept as the four
\* numbers in it.
AIFallbackEngine_generateSignal(data, strength) ==
    LET s == HeuristicScores(data)
        d == HeuristicDecision(s[1], s[2])
        weak == ((ProbUnit - strength) * 3) \div 10
    IN [decision |-> d.decision,
        confidence |-> Num(d.confidence),
        pump_probability |-> Num(IF d.decision = "Buy" THEN strength ELSE weak),
        dump_probability |-> Num(IF d.decision = "Sell" THEN strength ELSE weak),
        entry_price |-> data.price,
        stoploss |-> StopLoss(d.decision, data.price),
        take_profit |-> TakeProfit(d.decision, data.price),
        explanation |-> <<data.indicators.rsi, data.indicators.histogram, s[1], s[2]>>]

\* A rule that does not look at the MACD histogram.
LegacyDecision_IgnoresMacd(rsi, macd, low, high) ==
    IF rsi < 30 /\ low THEN "Buy"
    ELSE IF rsi > 70 /\ high THEN "Sell"
    ELSE "Hold"

\* The rule of fallbackHeuristicSignal (script.js 300-306); low is
\* bbPosition < 0.3 and high is bbPosition > 0.7.
LegacyDecision(rsi, macd, low, high) ==
    IF rsi < 30 /\ macd > 0 /\ low THEN "Buy"
    ELSE IF rsi > 70 /\ macd < 0 /\ high THEN "Sell"
    ELSE "Hold"

\* fallbackHeuristicSignal(coinData, indicators) of the earlier variant, on
\* the same record: price is coinData.current_price.  bbPosition is
\* (price - lower) / (upper - lower); the comparisons with 0.3 and 0.7 are
\* made in integers, for lower < upper (no band of the model is empty).
\* Its probabilities are the literals 0.7 and 0.3, its explanation names
\* the RSI only.
fallbackHeuristicSignal(data) ==
    LET ind == data.indicators
        width == ind.upper - ind.lower
        low == IsDef(data.price) /\ 10 * (Val(data.price) - ind.lower) < 3 * width
        high == IsDef(data.price) /\ 10 * (Val(data.price) - ind.lower) > 7 * width
        decision == LegacyDecision(ind.rsi, ind.histogram, low, high)
    IN [decision |-> decision,
        confidence |-> Num(IF decision = "Hold" THEN 50 ELSE 75),
        pump_probability |-> Num(IF decision = "Buy" THEN 7000 ELSE 3000),
        dump_probability |-> Num(IF decision = "Sell" THEN 7000 ELSE 3000),
        entry_price |-> data.price,
        stoploss |-> StopLoss(decision, data.price),
        take_profit |-> TakeProfit(decision, data.price),
        explanation |-> <<ind.rsi>>]

\* Objects JSON.parse can give for the text of the inference endpoint: a
\* complete Signal, one with no decision and no numbers, and one whose
\* numbers are outside the ranges the prompt asks for.
NoSignal ==
    [decision |-> "none", confidence |-> UNDEF, pump_probability |-> UNDEF,
     dump_probability |-> UNDEF, entry_price |-> UNDEF, stoploss |-> UNDEF,
     take_profit |-> UNDEF, explanation |-> <<>>]
CompleteSignal ==
    [decision |-> "Buy", confidence |-> Num(85), pump_probability |-> Num(7000),
     dump_probability |-> Num(1000), entry_price |-> Num(100), stoploss |-> Num(9900),
     take_profit |-> Num(10300), explanation |-> <<>>]
WildSignal ==
    [decision |-> "Moon", confidence |-> Num(150), pump_probability |-> Num(25000),
     dump_probability |-> Num(0), entry_price |-> Num(100), stoploss |-> Num(9900),
     take_profit |-> Num(10300), explanation |-> <<>>]
RemoteObjects == {CompleteSignal, NoSignal}
AllRemoteObjects == {CompleteSignal, NoSignal, WildSignal}

\* updateSignals renders every stored Signal with entry_price.toFixed(2),
\* which throws a TypeError on an undefined entry_price.
updateSignalsThrows(sigs) ==
    \E c \in DOMAIN sigs : ~IsDef(sigs[c].entry_price)

(***************************************************************************)
(* Calls in flight.  Each slot holds one call of fetchWithRetry (kind      *)
(* "fetch": updateChart, searchCoins and the other fetchers) or one call   *)
(* of generateSignal (kind "signal"), with its position and what it did.   *)
(***************************************************************************)
IdleCall ==
    [kind |-> "none", pc |-> "idle", key |-> "bitcoin",
     coinData |-> SearchSnapshot("bitcoin"),
     retries |-> 0, budget |-> 0, netCalls |-> 0, netOk |-> FALSE, hit |-> FALSE,
     waits |-> <<>>, fwr |-> "pending", value |-> NULL,
     cached |-> NULL,
     entryAtStart |-> "none", histLen |-> 0, indicators |-> NoIndicators,
     hfCalls |-> 0, hfOutcome |-> "none", hfText |-> <<>>, seq |-> 0,
     stored |-> "none", alerts |-> 0,
     gs |-> "pending"]

\* What the cache holds for key at time t, as the spec's data model sees it.
EntryState(c, key, t) ==
    IF key \notin DOMAIN c THEN "none"
    ELSE IF t - c[key].timestamp > CACHE_TTL THEN "stale"
    ELSE "fresh"

\* generateSignal without its catch block: a throw rejects the promise.
generateSignalSettles_NoCatch(threw) == IF threw THEN "rejected" ELSE "resolved"

\* How the promise of generateSignal settles: the whole body is inside
\* try { ... } catch (error) { console.warn(...) }, so a throw anywhere in it
\* (threw = TRUE) ends in the handler and the promise resolves.
generateSignalSettles(threw) == "resolved"

\* The wait before the retry that follows a failed attempt made with
\* `retries` retries left.
BackoffDelay(retries) == (MAX_RETRIES - retries + 1) * BackoffUnit

\* fetchWithRetry without the offline test.
OfflineFails_Never(online) == FALSE

\* The offline test of line 744: throw when STATE.isOnline is false.
OfflineFails(online) == ~online

\* fetchWithRetry that falls back to the entry that was stale at its start.
ExhaustedResult_UsesStale(rec) ==
    IF rec.entryAtStart = "stale"
    THEN [status |-> "resolved", value |-> Chart(MinSamples)]
    ELSE [status |-> "rejected", value |-> NULL]

\* How fetchWithRetry settles once no retry is left: throw error.
ExhaustedResult(rec) == [status |-> "rejected", value |-> NULL]

\* A retry test that stops one retry early.
ShouldRetry_OneFewer(retries, online) == retries > 1 /\ online

\* Whether an attempt that failed with `retries` left is retried.
ShouldRetry(retries, online) == retries > 0 /\ online

\* The sample-count test with the threshold one too low.
InsufficientData_OneLess(len) == len < MinSamples - 1

\* generateSignal's test on the price history.
InsufficientData(len) == len < MinSamples

\* The call returns: its locals are gone, what it did stays on record.
Return(rec) ==
    [rec EXCEPT !.pc = "done", !.retries = 0, !.indicators = NoIndicators, !.seq = 0]

\* The continuation of the caller once fetchWithRetry has settled with
\* status ("resolved" or "rejected") and value.  For generateSignal this is
\* fetchCoinChart's map (any failure, also data.prices of a non-object,
\* gives []), the sample-count test and the entry into calculateIndicators.
AfterFetch(rec, status, value) ==
    LET r0 == [rec EXCEPT !.fwr = status, !.value = value]
        \* fetchCoinChart keeps the mapped prices only: the payload, the
        \* attempts and the waits of its fetchWithRetry are not kept.
        r1 == [r0 EXCEPT !.value = NULL, !.cached = NULL, !.waits = <<>>,
                         !.netCalls = 0, !.entryAtStart = "none"]
        len == IF status = "resolved" /\ value.t = "chart" THEN value.len ELSE 0
    IN IF rec.kind = "fetch" THEN Return(r0)
       ELSE IF InsufficientData(len) \/ pyodide = "absent"
       THEN Return([r1 EXCEPT !.histLen = len, !.gs = generateSignalSettles(TRUE)])
       ELSE [r1 EXCEPT !.pc = "indicators", !.histLen = len, !.retries = 0]

\* fetchWithRetry(url, options, retries) up to its first await: the cache
\* lookup, the offline test and the fetch being issued.
EnterFetch(p, rec, retries) ==
    LET key == rec.key
        cached == getCache(cache, key, now)
        rec1 == [rec EXCEPT !.retries = retries, !.cached = cached]
    IN /\ cache' = getCacheEvict(cache, key, now)
       /\ evicted' = IF EntryState(cache, key, now) = "stale"
                     THEN evicted \cup {key} ELSE evicted
       /\ calls' = [calls EXCEPT ![p] =
             IF Truthy(cached)
             THEN AfterFetch([rec1 EXCEPT !.hit = TRUE], "resolved", cached)
             ELSE IF OfflineFails(isOnline)
             THEN AfterFetch(rec1, "rejected", NULL)
             ELSE [rec1 EXCEPT !.pc = "fetching", !.netCalls = @ + 1]]
       /\ UNCHANGED <<app, now, isOnline, pyodide, signals, lastSet, applied, engine>>

NewCall(kind, coinData, budget) ==
    [IdleCall EXCEPT
        !.kind = kind, !.key = coinData.id, !.coinData = coinData, !.budget = budget,
        !.entryAtStart = EntryState(cache, coinData.id, now),
        !.seq = IF kind = "signal" THEN started + 1 ELSE 0]

\* A caller other than generateSignal calls fetchWithRetry.
StartFetch(p, key, retries) ==
    /\ app.pc = "started"
    /\ calls[p].pc = "idle"
    /\ started < MaxStarts
    /\ started' = started + 1
    /\ EnterFetch(p, NewCall("fetch", SearchSnapshot(key), retries), retries)

\* generateSignal(coinData) is called: fetchCoinChart, fetchWithRetry.
StartSignal(p, coinData) ==
    /\ app.pc = "started"
    /\ calls[p].pc = "idle"
    /\ started < MaxSignals
    /\ started' = started + 1
    /\ EnterFetch(p, NewCall("signal", coinData, MAX_RETRIES), MAX_RETRIES)

\* The response arrives with an ok status and parses to data (the browser
\* has a network: navigator.onLine).
FetchOk(p, data) ==
    /\ calls[p].pc = "fetching"
    /\ app.onLine
    /\ cache' = setCache(cache, calls[p].key, data, now)
    /\ lastSet' = [k \in DOMAIN lastSet \cup {calls[p].key} |->
                      IF k = calls[p].key
                      THEN [data |-> data, timestamp |-> now,
                            n |-> IF k \in DOMAIN lastSet THEN lastSet[k].n + 1 ELSE 1]
                      ELSE lastSet[k]]
    /\ evicted' = evicted \ {calls[p].key}
    /\ calls' = [calls EXCEPT ![p] =
                    AfterFetch([calls[p] EXCEPT !.netOk = TRUE], "resolved", data)]
    /\ UNCHANGED <<app, now, isOnline, pyodide, signals, started, applied, engine>>

\* The attempt fails: a non-ok status, a network error, the 5 s abort or a
\* body that is not JSON; all of them land in the catch block.
FetchFail(p) ==
    /\ calls[p].pc = "fetching"
    /\ calls' = [calls EXCEPT ![p] =
          IF ShouldRetry(calls[p].retries, isOnline)
          THEN [calls[p] EXCEPT !.pc = "backoff",
                                !.waits = Append(@, BackoffDelay(calls[p].retries))]
          ELSE AfterFetch(calls[p], ExhaustedResult(calls[p]).status,
                          ExhaustedResult(calls[p]).value)]
    /\ UNCHANGED <<app, now, cache, isOnline, pyodide, signals, started, lastSet, evicted,
                 applied, engine>>

\* The backoff timer has fired (Tick made it due): the recursive call with
\* one retry fewer.
BackoffWake(p) ==
    /\ calls[p].pc = "due"
    /\ UNCHANGED started
    /\ EnterFetch(p, calls[p], calls[p].retries - 1)

(***************************************************************************)
(* generateSignal after the price history.                                 *)
(***************************************************************************)
\* Lines 860-876 once the remote result is known: hasRemote says that
\* callHuggingFace returned an object (truthy), remote is that object.
Finalize(p, rec, hasRemote, remote, strength) ==
    LET signal == IF hasRemote THEN remote
                  ELSE AIFallbackEngine_generateSignal(
                           HeuristicInput(rec.coinData, rec.indicators), strength)
        id == rec.coinData.id
        sigs == [c \in DOMAIN signals \cup {id} |->
                    IF c = id THEN signal ELSE signals[c]]
        threw == updateSignalsThrows(sigs)
        alert == ~threw /\ Gt(signal.confidence, Num(AlertThreshold))
    IN /\ signals' = sigs
       /\ applied' = [c \in DOMAIN applied \cup {id} |->
                         IF c = id THEN rec.seq ELSE applied[c]]
       /\ calls' = [calls EXCEPT ![p] =
             Return([rec EXCEPT !.stored = IF hasRemote THEN "remote" ELSE "heuristic",
                                !.alerts = IF alert THEN @ + 1 ELSE @,
                                !.gs = generateSignalSettles(threw)])]

\* After calculateIndicators returned ind: the remote call is made only
\* when STATE.isOnline, otherwise the heuristic runs at once.
AfterIndicators(p, ind, strength) ==
    LET rec == [calls[p] EXCEPT !.indicators = ind]
    IN IF isOnline
       THEN /\ calls' = [calls EXCEPT ![p] =
                            [rec EXCEPT !.pc = "hf", !.hfCalls = @ + 1]]
            /\ UNCHANGED <<signals, applied>>
       ELSE Finalize(p, rec, FALSE, NoSignal, strength)

\* analyze_all returns: the real engine gives an Indicators record.
IndicatorsOk(p, ind, strength) ==
    /\ calls[p].pc = "indicators"
    /\ pyodide = "real"
    /\ AfterIndicators(p, ind, strength)
    /\ UNCHANGED <<app, now, cache, isOnline, pyodide, started, lastSet, evicted, engine>>

\* calculateIndicators throws: the Python call raises, or the engine is the
\* mock of setup.js, whose runPythonAsync returns undefined, so that
\* result.toJs() is a TypeError.
IndicatorsFail(p) ==
    /\ calls[p].pc = "indicators"
    /\ calls' = [calls EXCEPT ![p] =
                    Return([calls[p] EXCEPT !.gs = generateSignalSettles(TRUE)])]
    /\ UNCHANGED <<app, now, cache, isOnline, pyodide, signals, started, lastSet, evicted,
                 applied, engine>>

\* The generated text of a response, as a sequence of pieces: "t" is text
\* with no brace in it, "{" and "}" are single braces, and "A", "B", "C" are
\* each the text of one complete JSON object (it starts with { and ends with
\* }): a complete Signal, an object with no decision, an object with numbers
\* out of range.  A missing body or generated_text is the empty text.
ObjectPieces == {"A", "B", "C"}
Pieces == {"t", "{", "}"} \cup ObjectPieces
ObjectOf(piece) ==
    IF piece = "A" THEN CompleteSignal
    ELSE IF piece = "B" THEN NoSignal
    ELSE WildSignal
HasOpen(piece) == piece \in {"{"} \cup ObjectPieces
HasClose(piece) == piece \in {"}"} \cup ObjectPieces

MaxTextLen == 3
AllTexts == UNION { [1..n -> Pieces] : n \in 0..MaxTextLen }
\* The texts drawn where two calls run side by side: no brace, an object
\* inside prose, an object with no decision.
Texts == { <<"t">>, <<"t", "A", "t">>, <<"B">> }

\* text.match(/\{[\s\S]*\}/): the pattern is greedy, so the match runs from
\* the first { of the text to its last }.  <<>> is null (no match).
jsonMatch(text) ==
    LET opens == {i \in 1..Len(text) : HasOpen(text[i])}
        closes == {i \in 1..Len(text) : HasClose(text[i])}
    IN IF opens = {} \/ closes = {} THEN <<>>
       ELSE LET first == CHOOSE i \in opens : \A k \in opens : i <= k
                last == CHOOSE i \in closes : \A k \in closes : k <= i
            IN IF first <= last THEN SubSeq(text, first, last) ELSE <<>>

\* JSON.parse(match) returns an object only when the match is the text of
\* exactly one object; on anything longer it throws a SyntaxError.
JSONparses(match) == Len(match) = 1 /\ match[1] \in ObjectPieces

\* What the inference endpoint can answer: a status ("error" is any other
\* non-ok status, or no response at all) and a generated text.
HFStatuses == {"ok", "429", "error"}
HFResponses == [status : HFStatuses, text : Texts]
AllHFResponses == [status : HFStatuses, text : AllTexts]

\* callHuggingFace that parses the body whatever the status.
callHuggingFace_IgnoresStatus(resp) ==
    IF jsonMatch(resp.text) = <<>> THEN [has |-> FALSE, obj |-> NoSignal]
    ELSE IF ~JSONparses(jsonMatch(resp.text)) THEN [has |-> FALSE, obj |-> NoSignal]
    ELSE [has |-> TRUE, obj |-> ObjectOf(jsonMatch(resp.text)[1])]

\* callHuggingFace's result for a response: has = FALSE is null (returned
\* at line 922 or 931, or from the catch block at 935).
callHuggingFace(resp) ==
    IF resp.status = "429" THEN [has |-> FALSE, obj |-> NoSignal]
    ELSE IF resp.status # "ok" THEN [has |-> FALSE, obj |-> NoSignal]
    ELSE IF jsonMatch(resp.text) = <<>> THEN [has |-> FALSE, obj |-> NoSignal]
    ELSE IF ~JSONparses(jsonMatch(resp.text)) THEN [has |-> FALSE, obj |-> NoSignal]
    ELSE [has |-> TRUE, obj |-> ObjectOf(jsonMatch(resp.text)[1])]

\* The inference endpoint answers (or the request fails).  hfText is the
\* generated text callHuggingFace read (none unless the status was ok).
HFResponse(p, resp, strength) ==
    /\ calls[p].pc = "hf"
    /\ app.onLine \/ resp.status = "error"
    /\ Finalize(p, [calls[p] EXCEPT
                        !.hfText = IF resp.status = "ok" THEN resp.text ELSE <<>>,
                        !.hfOutcome =
                            IF resp.status = "429" THEN "429"
                            ELSE IF callHuggingFace(resp).has THEN "object" ELSE "failed"],
                callHuggingFace(resp).has, callHuggingFace(resp).obj, strength)
    /\ UNCHANGED <<app, now, cache, isOnline, pyodide, started, lastSet, evicted, engine>>

\* The caller is done with the call; the slot is free for the next one.
Finish(p) ==
    /\ calls[p].pc = "done"
    /\ started < (IF calls[p].kind = "signal" THEN MaxSignals ELSE MaxStarts)
    /\ calls' = [calls EXCEPT ![p] = IdleCall]
    /\ UNCHANGED <<app, now, cache, isOnline, pyodide, signals, started, lastSet, evicted,
                 applied, engine>>

\* Date.now() moves on by d ms; every backoff timer whose delay has passed
\* becomes due.
Tick(d) ==
    /\ now + d <= MaxNow
    /\ now' = now + d
    /\ calls' = [p \in Procs |->
                    IF calls[p].pc = "backoff" /\ calls[p].waits[Len(calls[p].waits)] <= d
                    THEN [calls[p] EXCEPT !.pc = "due"] ELSE calls[p]]
    /\ UNCHANGED <<app, cache, isOnline, pyodide, signals, started, lastSet, evicted,
                 applied, engine>>

\* AIFallbackEngine.generateSignal called on its own, as a test of the
\* scorer calls it: engine holds the argument and the Signals returned for
\* it so far, and those fallbackHeuristicSignal returned for it (legacy).
\* The prices lie below, inside (near either band and in the middle) and
\* above the bands of AllIndicatorSet.
MaxEngineCalls == 2
EngineInputs ==
    [price : {UNDEF, Num(90), Num(97), Num(100), Num(103), Num(110)},
     change_1h : {UNDEF, Num(-100), Num(0), Num(100)},
     volume : {UNDEF, Num(1), Num(10)},
     market_cap : {Num(100)},
     indicators : AllIndicatorSet]
NoEngineCall ==
    [data |-> HeuristicInput(SearchSnapshot("bitcoin"), NoIndicators), results |-> <<>>,
     legacy |-> <<>>]

EngineCall(strength) ==
    /\ Len(engine.results) < MaxEngineCalls
    /\ engine' = [engine EXCEPT
                     !.results = Append(@, AIFallbackEngine_generateSignal(engine.data, strength))]
    /\ UNCHANGED <<app, now, cache, isOnline, pyodide, signals, calls, started, lastSet,
                   evicted, applied>>

\* fallbackHeuristicSignal called on the same argument.
LegacyCall ==
    /\ Len(engine.legacy) < MaxEngineCalls
    /\ engine' = [engine EXCEPT !.legacy = Append(@, fallbackHeuristicSignal(engine.data))]
    /\ UNCHANGED <<app, now, cache, isOnline, pyodide, signals, calls, started, lastSet,
                   evicted, applied>>

(***************************************************************************)
(* The state after script.js has loaded: empty maps; STATE.isOnline and    *)
(* STATE.pyodide are read once from window.APP_STATE (or navigator.onLine) *)
(* and never written again.                                                *)
(***************************************************************************)
Engines == {"absent", "mock", "real"}

\* Progress.total, and Progress.update(msg, step): a step of 0 (the
\* default) is falsy and increments, any other step is assigned.
ProgressTotal == 4
Progress_update(current, step) == IF step # 0 THEN step ELSE current + 1

\* The page around script.js: where initializeApp is (pc), Progress.current,
\* navigator.onLine, and window.APP_STATE (defined or not, and its isOnline).
SetupDone(online) ==
    [pc |-> "started", current |-> ProgressTotal, cdn |-> "primary",
     onLine |-> online, defined |-> TRUE, isOnline |-> online]

Init ==
    /\ now = 0
    /\ cache = <<>>
    /\ signals = <<>>
    /\ lastSet = <<>>
    /\ evicted = {}
    /\ isOnline \in BOOLEAN
    /\ pyodide \in Engines
    /\ calls = [p \in Procs |-> IdleCall]
    /\ started = 0
    /\ applied = <<>>
    /\ engine = NoEngineCall
    /\ app = SetupDone(isOnline)

\* The resilient fetch and the cache under it, whoever the caller is.
FetchSteps ==
    \/ \E p \in Procs, d \in Payloads : FetchOk(p, d)
    \/ \E p \in Procs : FetchFail(p)
    \/ \E p \in Procs : BackoffWake(p)
    \/ \E p \in Procs : Finish(p)
    \/ \E d \in TickSteps : Tick(d)

\* generateSignal after its price history.
SignalSteps ==
    \/ \E p \in Procs, ind \in IndicatorSet, s \in Strengths : IndicatorsOk(p, ind, s)
    \/ \E p \in Procs : IndicatorsFail(p)
    \/ \E p \in Procs, resp \in HFResponses, s \in Strengths : HFResponse(p, resp, s)

Next ==
    \/ \E p \in Procs, k \in Coins, r \in RetryArgs : StartFetch(p, k, r)
    \/ \E p \in Procs, c \in CoinSnapshots : StartSignal(p, c)
    \/ FetchSteps
    \/ SignalSteps

Spec == Init /\ [][Next]_vars

\* Only fetchWithRetry is called, for one request (the cache and retry
\* claims).
NextFetch ==
    \/ \E p \in Procs, r \in RetryArgs : StartFetch(p, "bitcoin", r)
    \/ FetchSteps

SpecFetch == Init /\ [][NextFetch]_vars

\* Only generateSignal is called (the reconciler claims).
NextSignal ==
    \/ \E p \in Procs, c \in CoinSnapshots : StartSignal(p, c)
    \/ FetchSteps
    \/ SignalSteps

SpecSignal == Init /\ [][NextSignal]_vars

\* One generateSignal at a time, every step of it included (the claims about
\* what one call does, step by step).
NextSolo ==
    \/ \E p \in {1}, c \in CoinSnapshots : StartSignal(p, c)
    \/ \E p \in {1}, d \in Payloads : FetchOk(p, d)
    \/ \E p \in {1} : FetchFail(p)
    \/ \E p \in {1} : BackoffWake(p)
    \/ \E p \in {1} : Finish(p)
    \/ \E d \in TickSteps : Tick(d)
    \/ \E p \in {1}, ind \in IndicatorSet, s \in Strengths : IndicatorsOk(p, ind, s)
    \/ \E p \in {1} : IndicatorsFail(p)
    \/ \E p \in {1}, resp \in HFResponses, s \in Strengths : HFResponse(p, resp, s)

SpecSolo == Init /\ [][NextSolo]_vars

\* The steps of one generateSignal that the code itself brings about.  A
\* price request settles because fetchWithRetry aborts it after 5000 ms
\* (script.js 747-750); a backoff timer fires; calculateIndicators runs
\* locally and settles.
FetchSettles == \/ \E d \in Payloads : FetchOk(1, d)
                \/ FetchFail(1)
TimerFires == BackoffWake(1)
IndicatorsSettle == \/ \E ind \in IndicatorSet, s \in Strengths : IndicatorsOk(1, ind, s)
                    \/ IndicatorsFail(1)

\* SpecSolo with the progress the code guarantees.  The fetch of
\* callHuggingFace (script.js 913-918) carries no signal and no timer, so
\* nothing in the code makes HFResponse happen: it is left without
\* fairness, the endpoint answers or does not.
SpecLive ==
    /\ Init
    /\ [][NextSolo]_vars
    /\ WF_vars(FetchSettles)
    /\ WF_vars(TimerFires)
    /\ WF_vars(IndicatorsSettle)

\* One generateSignal at a time, its price fetch answered at the first
\* attempt, with every other input drawn from its full set (the claims about
\* what one call reads, computes and stores).
NextOne ==
    \/ \E p \in {1}, c \in AllCoinSnapshots : StartSignal(p, c)
    \/ \E p \in {1}, d \in Payloads : FetchOk(p, d)
    \/ \E p \in {1} : Finish(p)
    \/ \E p \in {1}, ind \in IndicatorSet, s \in AllStrengths : IndicatorsOk(p, ind, s)
    \/ \E p \in {1} : IndicatorsFail(p)
    \/ \E p \in {1}, resp \in AllHFResponses, s \in AllStrengths : HFResponse(p, resp, s)

SpecOne == Init /\ [][NextOne]_vars

\* The scorer alone, called up to MaxEngineCalls times on one argument.
InitEngine ==
    /\ now = 0
    /\ cache = <<>>
    /\ signals = <<>>
    /\ lastSet = <<>>
    /\ evicted = {}
    /\ isOnline \in BOOLEAN
    /\ pyodide \in Engines
    /\ calls = [p \in Procs |-> IdleCall]
    /\ started = 0
    /\ applied = <<>>
    /\ engine \in [data : EngineInputs, results : {<<>>}, legacy : {<<>>}]
    /\ app = SetupDone(isOnline)

NextEngine ==
    \/ \E s \in AllStrengths : EngineCall(s)
    \/ LegacyCall

SpecEngine == InitEngine /\ [][NextEngine]_vars

(***************************************************************************)
(* setup.js: initializeApp from page load to script.js running, and the    *)
(* browser's online/offline events.  One action is one continuation of the *)
(* async code, so every Progress.update is seen between two steps unless   *)
(* two of them run in the same continuation.                               *)
(***************************************************************************)
\* The page has loaded setup.js: Progress.current is 0, window.APP_STATE is
\* not defined, script.js has not run (pyodide and isOnline stand for
\* STATE fields that do not exist yet and are assigned by ScriptRuns).
InitSetup ==
    /\ now = 0
    /\ cache = <<>>
    /\ signals = <<>>
    /\ lastSet = <<>>
    /\ evicted = {}
    /\ isOnline = FALSE
    /\ pyodide = "absent"
    /\ calls = [p \in Procs |-> IdleCall]
    /\ started = 0
    /\ applied = <<>>
    /\ engine = NoEngineCall
    /\ app \in [pc : {"load"}, current : {0}, cdn : {"primary"},
                 onLine : BOOLEAN, defined : {FALSE}, isOnline : {FALSE}]

SetupStep(next) ==
    /\ app' = next
    /\ UNCHANGED <<now, cache, isOnline, pyodide, signals, calls, started, lastSet,
                   evicted, applied, engine>>

\* initializeApp starts: Progress.update('Validating files...', 0), then
\* awaits checkRequiredFiles.
InitializeApp ==
    /\ app.pc = "load"
    /\ SetupStep([app EXCEPT !.pc = "files", !.current = Progress_update(@, 0)])

\* checkRequiredFiles settles.  Found: Progress.update(.., 1) and
\* registerServiceWorker is awaited.  Missing: the catch of initializeApp.
FilesChecked(ok) ==
    /\ app.pc = "files"
    /\ SetupStep(IF ok THEN [app EXCEPT !.pc = "sw", !.current = Progress_update(@, 1)]
                       ELSE [app EXCEPT !.pc = "failed"])

\* registerServiceWorker returns (it swallows a failed registration);
\* loadPyodideWithFallback: Progress.update(.., 1), loadPyodide(primary).
ServiceWorkerSettles ==
    /\ app.pc = "sw"
    /\ SetupStep([app EXCEPT !.pc = "cdn", !.current = Progress_update(@, 1)])

\* loadPyodide rejects: script.onerror, or globalThis.loadPyodide or
\* loadPackage throwing in onload.  From the primary CDN the fallback is
\* tried; from the fallback the error reaches the catch of initializeApp.
LoadPyodideFails ==
    /\ app.pc \in {"cdn", "packages"}
    /\ SetupStep(IF app.cdn = "primary"
                 THEN [app EXCEPT !.pc = "cdn", !.cdn = "fallback"]
                 ELSE [app EXCEPT !.pc = "failed"])

\* script.onload: globalThis.loadPyodide and loadPackage are awaited.
PyodideScriptLoads ==
    /\ app.pc = "cdn"
    /\ SetupStep([app EXCEPT !.pc = "packages"])

\* The packages are in: Progress.update('Python packages installed', 3)
\* and resolve(pyodide), inside onload.
PackagesInstalled ==
    /\ app.pc = "packages"
    /\ SetupStep([app EXCEPT !.pc = "resolved", !.current = Progress_update(@, 3)])

\* loadPyodideWithFallback resumes after its await on either CDN:
\* Progress.update(.., 2) and return pyodide.
LoaderReturns ==
    /\ app.pc = "resolved"
    /\ SetupStep([app EXCEPT !.pc = "returned", !.current = Progress_update(@, 2)])

\* initializeApp resumes: Progress.update('Loading AI engine...', 3) and
\* fetch('analysis.py').
InitializeAppResumes ==
    /\ app.pc = "returned"
    /\ SetupStep([app EXCEPT !.pc = "analysis", !.current = Progress_update(@, 3)])

\* analysis.py is fetched and run: Progress.update(.., 4), window.APP_STATE
\* is created from navigator.onLine and script.js is appended.  A failed
\* fetch or a Python error goes to the catch.
AnalysisLoaded(ok) ==
    /\ app.pc = "analysis"
    /\ SetupStep(IF ok
                 THEN [app EXCEPT !.pc = "script", !.current = Progress_update(@, 4),
                                  !.defined = TRUE, !.isOnline = app.onLine]
                 ELSE [app EXCEPT !.pc = "failed"])

\* script.js runs: STATE.pyodide and STATE.isOnline are read from
\* window.APP_STATE (script.js 610-611).
ScriptRuns ==
    /\ app.pc = "script"
    /\ app' = [app EXCEPT !.pc = "started"]
    /\ pyodide' = "real"
    /\ isOnline' = app.isOnline
    /\ UNCHANGED <<now, cache, signals, calls, started, lastSet, evicted, applied, engine>>

\* The browser fires 'online' or 'offline': navigator.onLine has changed,
\* and the handler writes window.APP_STATE.isOnline (a TypeError, and no
\* write, while window.APP_STATE is undefined).  STATE is not touched.
NetworkEvent ==
    /\ SetupStep([app EXCEPT !.onLine = ~@,
                             !.isOnline = IF app.defined THEN ~app.onLine ELSE @])

SetupSteps ==
    \/ InitializeApp
    \/ \E ok \in BOOLEAN : FilesChecked(ok)
    \/ ServiceWorkerSettles
    \/ LoadPyodideFails
    \/ PyodideScriptLoads
    \/ PackagesInstalled
    \/ LoaderReturns
    \/ InitializeAppResumes
    \/ \E ok \in BOOLEAN : AnalysisLoaded(ok)
    \/ ScriptRuns

\* The page from its load on: the setup, the network events, and one
\* generateSignal at a time once script.js runs.
NextSetup ==
    \/ SetupSteps
    \/ NetworkEvent
    \/ NextSolo

SpecSetup == InitSetup /\ [][NextSetup]_vars

(***************************************************************************)
(* Properties of the cache and of fetchWithRetry (under SpecFetch).        *)
(***************************************************************************)
\* Call p ran fetchWithRetry's getCache in this step: it was started, or
\* its backoff timer fired.
Lookup(p) == calls[p].pc \in {"idle", "due"} /\ calls'[p].pc \notin {"idle", "due"}

\* The cache entry of p's key, and its age, before the step.
HasEntry(p) == calls'[p].key \in DOMAIN cache
EntryOf(p) == cache[calls'[p].key]
AgeOf(p) == now - cache[calls'[p].key].timestamp

\* Network calls p had made before the step (none when it is just started).
CallsBefore(p) == IF calls[p].pc = "idle" THEN 0 ELSE calls[p].netCalls

\* C1: a fetchWithRetry that finds an entry for its key younger than
\* CACHE_TTL returns that entry's payload and issues no network call, for
\* every payload the endpoint can have returned.
C1_FreshEntryIsReturned ==
    [][\A p \in Procs :
         (Lookup(p) /\ HasEntry(p) /\ AgeOf(p) < CACHE_TTL)
         => /\ calls'[p].hit
            /\ calls'[p].fwr = "resolved"
            /\ calls'[p].value = EntryOf(p).data
            /\ calls'[p].netCalls = CallsBefore(p)]_vars

C3_GetReturnsLastSet ==
    [][\A p \in Procs :
         (Lookup(p) /\ calls'[p].key \in DOMAIN lastSet
                    /\ now - lastSet[calls'[p].key].timestamp < CACHE_TTL)
         => calls'[p].cached = lastSet[calls'[p].key].data]_vars

\* C3's case: the key was set at least twice, the first set is older than
\* CACHE_TTL, the last one younger, and a get returned the last value.
C3_Witness ==
    \E p \in Procs :
        /\ calls[p].pc = "done"
        /\ calls[p].hit
        /\ calls[p].key \in DOMAIN lastSet
        /\ lastSet[calls[p].key].n >= 2
        /\ lastSet[calls[p].key].timestamp > 0
        /\ now - lastSet[calls[p].key].timestamp < CACHE_TTL
        /\ now > CACHE_TTL
        /\ calls[p].value = lastSet[calls[p].key].data

\* A call that is over, never found a usable cache entry and saw every one
\* of its network calls fail, with the process online.
Exhausted(p) ==
    /\ calls[p].kind = "fetch"
    /\ calls[p].pc = "done"
    /\ isOnline
    /\ ~calls[p].hit
    /\ ~calls[p].netOk

\* C4 as the spec states it: such a request, started with no cache entry,
\* makes exactly maxRetries network attempts and then fails.
C4_ExactlyMaxRetriesAttempts ==
    \A p \in Procs :
        (Exhausted(p) /\ calls[p].entryAtStart = "none")
        => (calls[p].netCalls = calls[p].budget /\ calls[p].fwr = "rejected")

\* C4 as the code has it: the request makes exactly maxRetries + 1 network
\* attempts (the first one and maxRetries retries: 4 with the default
\* budget of 3), waits once before each retry, and then fails; it never
\* returns a payload.
C4_MaxRetriesPlusOneAttempts ==
    \A p \in Procs :
        Exhausted(p)
        => /\ calls[p].netCalls = calls[p].budget + 1
           /\ Len(calls[p].waits) = calls[p].budget
           /\ calls[p].fwr = "rejected"
           /\ calls[p].value = NULL

\* C4's case: a call with the default budget failed after 4 attempts.
C4_Witness ==
    \E p \in Procs :
        /\ Exhausted(p)
        /\ calls[p].entryAtStart = "none"
        /\ calls[p].budget = MAX_RETRIES
        /\ calls[p].netCalls = MAX_RETRIES + 1
        /\ calls[p].fwr = "rejected"

IsSignalCall(p) == calls[p].kind = "signal"

\* C7: generateSignal never rejects: whatever the price fetch, the indicator
\* engine, the remote call, the parsing and the rendering do, its promise
\* resolves.
C7_GenerateSignalNeverRejects ==
    \A p \in Procs :
        IsSignalCall(p)
        => /\ calls[p].gs # "rejected"
           /\ calls[p].pc = "done" => calls[p].gs = "resolved"

\* C7's case: a call stored a heuristic Signal of confidence 90, the
\* rendering threw on its undefined entry_price (no alert was played), and
\* the call resolved.
C7_Witness ==
    \E p \in Procs :
        /\ IsSignalCall(p) /\ calls[p].pc = "done"
        /\ calls[p].histLen >= MinSamples
        /\ calls[p].stored = "heuristic" /\ calls[p].alerts = 0
        /\ signals[calls[p].key].confidence = Num(90)
        /\ ~IsDef(signals[calls[p].key].entry_price)
        /\ calls[p].gs = "resolved"

\* C8: every generateSignal call whose price history has at least 30
\* samples ends with a Signal stored for its coin.
C8_EnoughSamplesStoresSignal ==
    \A p \in Procs :
        (IsSignalCall(p) /\ calls[p].pc = "done" /\ calls[p].histLen >= MinSamples)
        => (calls[p].stored # "none" /\ calls[p].key \in DOMAIN signals)

\* C9: a generateSignal call whose price history has fewer than 30 samples
\* (none at all when the fetch failed) changes nothing in the signal map,
\* sends nothing to the inference endpoint and triggers no alert.
C9_ShortHistoryChangesNothing ==
    [][\A p \in Procs :
         (calls'[p].kind = "signal" /\ calls'[p] # calls[p]
            /\ calls'[p].histLen < MinSamples)
         => /\ signals' = signals
            /\ calls'[p].hfCalls = 0
            /\ calls'[p].alerts = 0
            /\ calls'[p].stored = "none"]_vars

\* C9's case: a call with 29 samples has ended while its coin had a Signal
\* from an earlier call; that Signal is still there.
C9_Witness ==
    \E p \in Procs :
        /\ IsSignalCall(p) /\ calls[p].pc = "done"
        /\ calls[p].fwr = "resolved" /\ calls[p].histLen = MinSamples - 1
        /\ calls[p].stored = "none"
        /\ calls[p].key \in DOMAIN signals

\* C10: when the inference endpoint answers 429, the call has sent exactly
\* one request to it, stores the heuristic Signal for its coin and resolves.
C10_RateLimitedFallsBack ==
    [][\A p \in Procs :
         (calls'[p].hfOutcome = "429" /\ calls[p].hfOutcome # "429")
         => /\ calls'[p].pc = "done"
            /\ calls'[p].hfCalls = 1
            /\ calls'[p].stored = "heuristic"
            /\ calls'[p].gs = "resolved"
            /\ calls'[p].key \in DOMAIN signals'
            /\ \E s \in AllStrengths :
                  signals'[calls'[p].key] =
                      AIFallbackEngine_generateSignal(
                          HeuristicInput(calls[p].coinData, calls[p].indicators), s)]_vars

\* C10's case: a call got 429 and the Signal of its coin is the heuristic
\* one.
C10_Witness ==
    \E p \in Procs :
        /\ IsSignalCall(p) /\ calls[p].pc = "done"
        /\ calls[p].hfOutcome = "429"
        /\ calls[p].hfCalls = 1
        /\ calls[p].stored = "heuristic"
        /\ signals[calls[p].key].decision = "Buy"
        /\ signals[calls[p].key].confidence = Num(90)

(***************************************************************************)
(* Properties of the remote result and of the stored Signal.               *)
(***************************************************************************)
Decisions == {"Buy", "Sell", "Hold"}

\* C11: when the object parsed from the remote response has no decision
\* field, the call stores the heuristic Signal: the Signal its coin has once
\* the remote call is over always carries a decision.
C11_DecisionlessRemoteIsDropped ==
    [][\A p \in Procs :
         (calls[p].pc = "hf" /\ calls'[p].pc = "done")
         => signals'[calls[p].key].decision \in Decisions]_vars

\* The first piece of text that is a complete object, 0 when there is none.
FirstObject(text) ==
    IF \A i \in 1..Len(text) : text[i] \notin ObjectPieces THEN 0
    ELSE CHOOSE i \in 1..Len(text) :
            /\ text[i] \in ObjectPieces
            /\ \A k \in 1..(i - 1) : text[k] \notin ObjectPieces

\* C12: the remote result is the first valid object embedded in the
\* generated text, whatever surrounds or follows it; a text with no brace
\* gives no remote result and the heuristic Signal is stored; the call ends
\* normally in every case.
C12_FirstObjectIsExtracted ==
    [][\A p \in Procs :
         (calls[p].pc = "hf" /\ calls'[p].pc = "done"
            /\ calls'[p].hfOutcome \in {"object", "failed"})
         => LET text == calls'[p].hfText
                key == calls[p].key
            IN /\ FirstObject(text) # 0
                    => /\ calls'[p].stored = "remote"
                       /\ signals'[key] = ObjectOf(text[FirstObject(text)])
               /\ (\A i \in 1..Len(text) : text[i] = "t")
                    => calls'[p].stored = "heuristic"
               /\ calls'[p].gs = "resolved"]_vars

\* x is a number between lo and hi.
Within(x, lo, hi) == IsDef(x) /\ lo <= Val(x) /\ Val(x) <= hi

\* C13: every Signal in the signal map has its decision in {Buy, Sell,
\* Hold}, its confidence in [0,100] and both probabilities in [0,1] (stated
\* for the Signals that carry a decision field at all).
C13_StoredSignalIsInRange ==
    \A c \in DOMAIN signals :
        signals[c].decision # "none"
        => /\ signals[c].decision \in Decisions
           /\ Within(signals[c].confidence, 0, 100)
           /\ Within(signals[c].pump_probability, 0, ProbUnit)
           /\ Within(signals[c].dump_probability, 0, ProbUnit)

(***************************************************************************)
(* Properties of the local heuristic.                                      *)
(***************************************************************************)
\* The scores of the table on a coin snapshot: price is its current price,
\* change_1h its 1h change, volume its total volume.
TableScores(coinData, indicators) ==
    HeuristicScores([price |-> coinData.current_price,
                     change_1h |-> coinData.price_change_1h,
                     volume |-> coinData.total_volume,
                     market_cap |-> coinData.market_cap,
                     indicators |-> indicators])

\* C14: the scores of a heuristic Signal that generateSignal stores are the
\* scores of the table on the call's coin snapshot and Indicators.
C14_ScoresFollowTheTable ==
    [][\A p \in Procs :
         (calls[p].pc = "hf" /\ calls'[p].stored = "heuristic")
         => LET e == signals'[calls[p].key].explanation
            IN <<e[3], e[4]>> = TableScores(calls[p].coinData, calls[p].indicators)]_vars

\* The Signals AIFallbackEngine.generateSignal has returned, and the two
\* scores a Signal reports in its explanation.
Results == {engine.results[i] : i \in 1..Len(engine.results)}
BuyScoreOf(signal) == signal.explanation[3]
SellScoreOf(signal) == signal.explanation[4]

\* C15: a heuristic Signal says Buy exactly when buyScore >= 5 and buyScore
\* > sellScore, Sell exactly when sellScore >= 5 and sellScore > buyScore,
\* and Hold otherwise (equal scores, or no score reaching 5).
C15_DecisionRule ==
    \A r \in Results :
        LET b == BuyScoreOf(r)
            s == SellScoreOf(r)
        IN /\ r.decision \in Decisions
           /\ r.decision = "Buy" <=> (b >= 5 /\ b > s)
           /\ r.decision = "Sell" <=> (s >= 5 /\ s > b)
           /\ r.decision = "Hold" <=> (~(b >= 5 /\ b > s) /\ ~(s >= 5 /\ s > b))

\* C15's case: price 100, RSI 20, histogram -0.5, bands 95/105 gives Hold.
C15_Witness ==
    /\ engine.data.price = Num(100)
    /\ engine.data.indicators = [rsi |-> 20, histogram |-> -50, lower |-> 95, upper |-> 105]
    /\ Len(engine.results) > 0
    /\ engine.results[1].decision = "Hold"

\* C16: the confidence of a heuristic Signal is min(90, 50 + 8 x winning
\* score) for Buy and Sell, and 50 for Hold.
C16_ConfidenceFormula ==
    \A r \in Results :
        LET w == IF r.decision = "Buy" THEN BuyScoreOf(r) ELSE SellScoreOf(r)
        IN r.confidence =
              Num(IF r.decision = "Hold" THEN 50
                  ELSE IF 50 + 8 * w > 90 THEN 90 ELSE 50 + 8 * w)

\* C16's case: a Buy with buyScore 9, whose 50 + 72 is cut to 90.
C16_Witness ==
    \E r \in Results :
        r.decision = "Buy" /\ BuyScoreOf(r) = 9 /\ r.confidence = Num(90)

\* C17: two calls of the heuristic on the same snapshot and Indicators
\* return Signals equal in every field.
C17_HeuristicIsDeterministic ==
    \A r1, r2 \in Results : r1 = r2

(***************************************************************************)
(* Properties of the alert and of concurrent generations.                  *)
(***************************************************************************)
\* C18: a generateSignal call plays the alert exactly once when it stores a
\* Signal of confidence > 80, and not at all when it stores a Signal of
\* confidence <= 80 or stores none.
C18_AlertIffConfident ==
    [][\A p \in Procs :
         (calls'[p].kind = "signal" /\ calls'[p].pc = "done" /\ calls[p].pc # "done")
         => calls'[p].alerts =
               IF /\ calls'[p].stored # "none"
                  /\ Gt(signals'[calls'[p].key].confidence, Num(AlertThreshold))
               THEN 1 ELSE 0]_vars

\* A generateSignal call that has started and not yet settled.
InFlight(p) == calls[p].kind = "signal" /\ calls[p].pc \notin {"idle", "done"}

\* C19: at most one generateSignal is in flight per coin id.
C19_OneGenerationPerCoin ==
    \A p, q \in Procs :
        (p # q /\ InFlight(p) /\ InFlight(q)) => calls[p].key # calls[q].key

\* C20: a call never replaces the Signal of its coin when that Signal comes
\* from a generation started after the call itself.
C20_NoStaleOverwrite ==
    [][\A p \in Procs :
         (calls[p].stored = "none" /\ calls'[p].stored # "none"
            /\ calls[p].key \in DOMAIN applied)
         => applied[calls[p].key] < calls[p].seq]_vars


(***************************************************************************)
(* Termination of generateSignal (under SpecLive).                         *)
(***************************************************************************)
\* C21: the remote inference call is cut off by its own timeout: a
\* generateSignal that is waiting for the inference endpoint eventually
\* returns, even if the endpoint never responds, so no call stays pending
\* forever.
C21_RemoteCallIsCutOff ==
    \A p \in Procs : (calls[p].pc = "hf") ~> (calls[p].pc = "done")


(***************************************************************************)
(* The offline state (under SpecSetup).                                    *)
(***************************************************************************)
\* Call p of generateSignal has its price history, of at least MinSamples
\* samples, from the cache.
HistoryFromCache(p) ==
    /\ calls[p].kind = "signal"
    /\ calls[p].pc = "indicators"
    /\ calls[p].hit
    /\ calls[p].histLen >= MinSamples

\* C22: when the process is offline (the network status the offline handler
\* recorded is offline), a generateSignal that has a price history of at
\* least 30 samples from the cache sends no request to the inference
\* endpoint, and the Signal it stores is the local heuristic one.
C22_OfflineSendsNoInferenceRequest ==
    [][\A p \in Procs :
         (app.pc = "started" /\ ~app.isOnline /\ HistoryFromCache(p))
         => /\ calls'[p].pc # "hf"
            /\ calls'[p].hfCalls = 0
            /\ calls'[p].stored \in {"none", "heuristic"}]_vars


(***************************************************************************)
(* The prices of a heuristic Signal.                                       *)
(***************************************************************************)
\* Call p of generateSignal stores a heuristic Signal in this step.
StoresHeuristic(p) ==
    /\ calls[p].pc \in {"indicators", "hf"}
    /\ calls'[p].stored = "heuristic"

\* C23: the entry_price of every heuristic Signal stored by generateSignal
\* equals the current price of the coin snapshot generateSignal was called
\* with.
C23_EntryPriceIsCurrentPrice ==
    [][\A p \in Procs :
         StoresHeuristic(p)
         => signals'[calls[p].key].entry_price = calls[p].coinData.current_price]_vars


\* Every heuristic Signal returned so far, by either variant.
HeuristicResults == Results \cup {engine.legacy[i] : i \in 1..Len(engine.legacy)}

\* stoploss and take_profit are in hundredths of the unit of entry_price:
\* e is 100 x entry_price, so 1% of entry_price is Val(entry_price).
PricesAreOrdered(r) ==
    LET unit == Val(r.entry_price)
        e == 100 * unit
        sl == Val(r.stoploss)
        tp == Val(r.take_profit)
        risk == IF sl < e THEN e - sl ELSE sl - e
        gain == IF tp < e THEN e - tp ELSE tp - e
    IN /\ IsDef(r.stoploss) /\ IsDef(r.take_profit)
       /\ r.decision = "Buy" => (sl < e /\ e < tp)
       /\ r.decision = "Sell" => (tp < e /\ e < sl)
       /\ unit <= risk /\ risk <= 3 * unit
       /\ unit <= gain /\ gain <= 3 * unit

\* C24: for every heuristic Signal with a positive price, a Buy has
\* stoploss < entry_price < take_profit, a Sell has take_profit <
\* entry_price < stoploss, and each of the two offsets is between 1% and 3%
\* of entry_price.
C24_StopAndTargetBracketEntry ==
    \A r \in HeuristicResults :
        (r.decision \in {"Buy", "Sell"} /\ Gt(r.entry_price, Num(0))) => PricesAreOrdered(r)

\* C24's case: the scorer has returned a Sell at price 110, with its stop
\* 1% above and its target 3% below, and the earlier variant a Sell too.
C24_Witness ==
    /\ \E r \in Results :
          /\ r.decision = "Sell"
          /\ r.entry_price = Num(110)
          /\ r.stoploss = Num(11110)
          /\ r.take_profit = Num(10670)
    /\ \E i \in 1..Len(engine.legacy) : engine.legacy[i].decision = "Sell"


(***************************************************************************)
(* The backoff of fetchWithRetry (under SpecFetch).                        *)
(***************************************************************************)
\* C25: the wait before the k-th retry of a request is k x 1000 ms, for
\* every value of the retries argument fetchWithRetry is called with.
C25_BackoffIsLinearInTheRetry ==
    \A p \in Procs :
        \A k \in 1..Len(calls[p].waits) : calls[p].waits[k] = k * BackoffUnit


(***************************************************************************)
(* The network status (under SpecSetup).                                   *)
(***************************************************************************)
\* C26: once the application has started, the flag fetchWithRetry and
\* generateSignal test (STATE.isOnline) equals the latest network status the
\* online/offline handlers recorded (window.APP_STATE.isOnline), after any
\* sequence of online and offline events.
C26_FlagFollowsNetworkStatus ==
    app.pc = "started" => isOnline = app.isOnline


(***************************************************************************)
(* Requests in flight (under SpecFetch).                                   *)
(***************************************************************************)
\* The calls whose network request for key is in flight.
Fetching(key) == {p \in Procs : calls[p].pc = "fetching" /\ calls[p].key = key}

\* C27: for any cache key at most one network request is in flight at a
\* time: a second fetchWithRetry for the same request, started while the
\* first is pending, issues no network call of its own.
C27_OneRequestInFlightPerKey ==
    \A key \in Coins : Cardinality(Fetching(key)) <= 1


(***************************************************************************)
(* The two confidences of the scorer (under SpecEngine).                   *)
(***************************************************************************)
\* C28: every Signal returned by AIFallbackEngine.generateSignal has
\* confidence exactly 50 when it is a Hold and exactly 90 when it is a Buy
\* or a Sell (a winning score is at least 5, and 50 + 8 x 5 is the cap), so
\* every Buy or Sell is above the alert threshold of 80 and no Hold is.
C28_ConfidenceIsFiftyOrNinety ==
    \A r \in Results :
        /\ r.decision = "Hold" => r.confidence = Num(50)
        /\ r.decision \in {"Buy", "Sell"} =>
              /\ r.confidence = Num(90)
              /\ (IF r.decision = "Buy" THEN BuyScoreOf(r) ELSE SellScoreOf(r)) >= 5
        /\ Gt(r.confidence, Num(AlertThreshold)) <=> r.decision # "Hold"

\* C28's case: a Sell won with the least winning score, 5, where 50 + 40 is
\* the cap itself.
C28_Witness ==
    \E r \in Results :
        r.decision = "Sell" /\ SellScoreOf(r) = 5 /\ r.confidence = Num(90)


(***************************************************************************)
(* The two heuristic variants on one argument (under SpecEngine).          *)
(***************************************************************************)
LegacyResults == {engine.legacy[i] : i \in 1..Len(engine.legacy)}

\* C29: on every input with lower band < upper band on which
\* fallbackHeuristicSignal decides Buy (respectively Sell), the scorer of
\* AIFallbackEngine, given the same RSI, MACD histogram, price, bands, 1h
\* change, volume and market cap, decides Buy (respectively Sell) too.
C29_ScorerAgreesWhereLegacyCommits ==
    \A l \in LegacyResults : \A r \in Results :
        (engine.data.indicators.lower < engine.data.indicators.upper
            /\ l.decision \in {"Buy", "Sell"})
        => r.decision = l.decision

\* C29's case: a price inside the bands, at a fifth of their width, on which
\* the earlier variant decides Buy; the scorer's band term adds nothing,
\* its 1h change and volume terms score for the other side, and it decides
\* Buy as well.
C29_Witness ==
    /\ engine.data.price = Num(97)
    /\ engine.data.change_1h = Num(-100)
    /\ engine.data.volume = Num(10)
    /\ \E l \in LegacyResults : l.decision = "Buy"
    /\ \E r \in Results : r.decision = "Buy" /\ BuyScoreOf(r) = 6 /\ SellScoreOf(r) = 2


(***************************************************************************)
(* The progress counter of the setup (under SpecSetup).                    *)
(***************************************************************************)
\* C30: during setup Progress.current never decreases and never exceeds
\* Progress.total, over the Progress.update calls of any setup path.
C30_ProgressIsMonotonic ==
    [][/\ app'.current >= app.current
       /\ app'.current <= ProgressTotal]_vars

====
